---- MODULE Spec2Model ----
(***************************************************************************)
(* Placement / interaction core of the logicism schematic editor           *)
(* (src/src/component.rs): the component catalog, the orientation-aware    *)
(* geometry and the Component widget's event handler, run on a canvas of   *)
(* NumComponents components that share one command queue.                  *)
(*                                                                         *)
(* Vectors, points and sizes are pairs <<x, y>> of integers (whole pixels  *)
(* and whole grid cells).  Option<Vec2> is the empty tuple for None and    *)
(* the pair for Some.                                                      *)
(***************************************************************************)
EXTENDS Integers, Sequences, FiniteSets, TLC

\* ------------------------------------------------------------------ bounds
NumComponents == 2
MaxEvents == 4
MaxCell == 2

\* ------------------------------------------------------- vectors / option
VSub(p, q) == <<p[1] - q[1], p[2] - q[2]>>

None == <<>>
Some(v) == v
IsSome(o) == o # None

\* ------------------------------------------------------------ Orientation
Orientation == {"North", "East", "South", "West"}

\* Orientation::angle, in quarter turns clockwise (FRAC_PI_2 units).
angle(o) ==
    CASE o = "North" -> 0
      [] o = "East"  -> 1
      [] o = "South" -> 2
      [] o = "West"  -> 3

\* ------------------------------------------------------- grid <-> canvas
\* Pixels per grid cell.
GridScale == 16

\* Rounding by adding a half and truncating toward zero.
RoundDiv_AddHalfTruncate(n, d) ==
    LET m == 2 * n + d
    IN  IF m >= 0 THEN m \div (2 * d) ELSE -((-m) \div (2 * d))

\* f64::round: nearest integer, halves away from zero (n / d, d > 0).
RoundDiv(n, d) ==
    IF n >= 0 THEN (2 * n + d) \div (2 * d)
              ELSE -((2 * (-n) + d) \div (2 * d))

\* Coords::to_canvas_space
to_canvas_space(c) == <<c[1] * GridScale, c[2] * GridScale>>

\* Coords::from_canvas_space
from_canvas_space(p) == <<RoundDiv(p[1], GridScale), RoundDiv(p[2], GridScale)>>

\* ---------------------------------------------------------- ComponentType
\* enumerate with the NOT gate given the footprint of the two-input gates.
enumerate_WideNot ==
    << [name |-> "NOT", size |-> <<48, 48>>, anchor_offset |-> <<24, 32>>,
        input_pins |-> << <<0, 1>> >>, output_pins |-> << <<0, -2>> >>],
       [name |-> "AND", size |-> <<48, 48>>, anchor_offset |-> <<24, 32>>,
        input_pins |-> << <<-1, 1>>, <<1, 1>> >>, output_pins |-> << <<0, -2>> >>],
       [name |-> "OR", size |-> <<48, 48>>, anchor_offset |-> <<24, 32>>,
        input_pins |-> << <<-1, 1>>, <<1, 1>> >>, output_pins |-> << <<0, -2>> >>],
       [name |-> "NAND", size |-> <<48, 48>>, anchor_offset |-> <<24, 32>>,
        input_pins |-> << <<-1, 1>>, <<1, 1>> >>, output_pins |-> << <<0, -2>> >>] >>

\* ComponentType::enumerate (the icon is an opaque resource, left out).
enumerate ==
    << [name |-> "NOT", size |-> <<24, 48>>, anchor_offset |-> <<12, 32>>,
        input_pins |-> << <<0, 1>> >>, output_pins |-> << <<0, -2>> >>],
       [name |-> "AND", size |-> <<48, 48>>, anchor_offset |-> <<24, 32>>,
        input_pins |-> << <<-1, 1>>, <<1, 1>> >>, output_pins |-> << <<0, -2>> >>],
       [name |-> "OR", size |-> <<48, 48>>, anchor_offset |-> <<24, 32>>,
        input_pins |-> << <<-1, 1>>, <<1, 1>> >>, output_pins |-> << <<0, -2>> >>],
       [name |-> "NAND", size |-> <<48, 48>>, anchor_offset |-> <<24, 32>>,
        input_pins |-> << <<-1, 1>>, <<1, 1>> >>, output_pins |-> << <<0, -2>> >>] >>

\* anchor_offset with West measured against the height.
anchor_offset_WestHeight(ty, orientation) ==
    LET a == ty.anchor_offset
        width == ty.size[1]
        height == ty.size[2]
    IN  CASE orientation = "North" -> a
          [] orientation = "East"  -> <<height - a[2], a[1]>>
          [] orientation = "South" -> <<width - a[1], height - a[2]>>
          [] orientation = "West"  -> <<a[2], height - a[1]>>

\* ComponentType::anchor_offset
anchor_offset(ty, orientation) ==
    LET a == ty.anchor_offset
        width == ty.size[1]
        height == ty.size[2]
    IN  CASE orientation = "North" -> a
          [] orientation = "East"  -> <<height - a[2], a[1]>>
          [] orientation = "South" -> <<width - a[1], height - a[2]>>
          [] orientation = "West"  -> <<a[2], width - a[1]>>

\* bounding_rect without the width/height swap.
bounding_rect_NoSwap(ty, coords, orientation) ==
    LET top_left == VSub(to_canvas_space(coords), anchor_offset(ty, orientation))
    IN  [origin |-> top_left, size |-> ty.size]

\* ComponentType::bounding_rect
bounding_rect(ty, coords, orientation) ==
    LET top_left == VSub(to_canvas_space(coords), anchor_offset(ty, orientation))
        size == IF orientation \in {"North", "South"}
                THEN ty.size
                ELSE <<ty.size[2], ty.size[1]>>
    IN  [origin |-> top_left, size |-> size]

\* ------------------------------------------------------ ComponentInstance
\* Affine::rotate(th) applied to v, for th a number of quarter turns: the
\* matrix [cos, sin, -sin, cos], clockwise with y pointing down.
rotate(q, v) ==
    LET cos == CASE q = 0 -> 1 [] q = 1 -> 0 [] q = 2 -> -1 [] q = 3 -> 0
        sin == CASE q = 0 -> 0 [] q = 1 -> 1 [] q = 2 -> 0 [] q = 3 -> -1
    IN  <<cos * v[1] - sin * v[2], sin * v[1] + cos * v[2]>>

\* ComponentInstance::paint, recenter with East translated by the width.
recenter_EastWidth(inst) ==
    CASE inst.orientation = "North" -> <<0, 0>>
      [] inst.orientation = "East"  -> <<inst.ty.size[1], 0>>
      [] inst.orientation = "South" -> <<inst.ty.size[1], inst.ty.size[2]>>
      [] inst.orientation = "West"  -> <<0, inst.ty.size[1]>>

\* ComponentInstance::paint, recenter: the translation per orientation.
recenter(inst) ==
    CASE inst.orientation = "North" -> <<0, 0>>
      [] inst.orientation = "East"  -> <<inst.ty.size[2], 0>>
      [] inst.orientation = "South" -> <<inst.ty.size[1], inst.ty.size[2]>>
      [] inst.orientation = "West"  -> <<0, inst.ty.size[1]>>

\* ComponentInstance::paint, rotate_center = recenter * rotate(angle),
\* applied to the point v of the icon's frame.
rotate_center(inst, v) ==
    LET r == rotate(angle(inst.orientation), v)
        t == recenter(inst)
    IN  <<r[1] + t[1], r[2] + t[2]>>

\* ComponentInstance::bounding_rect
instance_bounding_rect(inst) == bounding_rect(inst.ty, inst.coords, inst.orientation)

\* ComponentInstance::anchor_offset: always the North offset.
instance_anchor_offset(inst) == anchor_offset(inst.ty, "North")

\* --------------------------------------------------------- ComponentState
\* ComponentState::new
NewComponentState(coords, ty, orientation) ==
    [coords |-> coords, ty |-> ty, orientation |-> orientation,
     selected |-> FALSE, dragging |-> None]

\* ------------------------------------------------------------- the canvas
\* Widget ids of the components on the canvas.
Widgets == 1..NumComponents

\* Window positions the pointer reports.
PointerPositions == {<<0, 0>>, <<24, 8>>}

\* Keys the keyboard reports ("x" stands for every unmapped key).
Keys == {"w", "a", "s", "d", "x"}

\* No geometry function has been called.
NoCall == [op |-> "none", ty |-> 1, coords |-> <<0, 0>>, orientation |-> "North",
           result |-> << >>]

\* Grid cells the geometry functions are called with.
Cells == (-MaxCell..MaxCell) \X (-MaxCell..MaxCell)

\* No pointer press is the latest input event.
NoGesture == [id |-> 0, pos |-> <<0, 0>>, ctrl |-> FALSE, before |-> << >>]

\* The canvas as placed: widget 1 a NOT gate, widget 2 an AND gate, and so
\* on through the catalog, two cells apart, all facing North.
Placed(w) == NewComponentState(<<2 * (w - 1), 0>>, ((w - 1) % Len(enumerate)) + 1, "North")

VARIABLES
    data,       \* widget id -> ComponentState (ty is the index into enumerate)
    queue,      \* commands submitted and not yet delivered to every widget
    cursor,     \* the widget the head command of queue reaches next, 0 if none
    gesture,    \* the pointer press, if it is the latest input event, with the
                \* canvas as it was before the press
    events,     \* input events handled so far
    plain,      \* every press so far came without ctrl and with no drag on
    geo         \* a call of a geometry function: its arguments and its result

vars == <<data, queue, cursor, gesture, events, plain, geo>>

ty_of(d) == enumerate[d.ty]
instance_of(d) == [coords |-> d.coords, ty |-> ty_of(d), orientation |-> d.orientation]

\* ------------------------------------------------ Component::event, by arm
\* The ctx calls request_paint, request_focus, resign_focus, set_active and
\* set_handled act on the framework's own state, which no arm reads.

\* OnMouseDown that toggles the selection.
OnMouseDown_Toggle(d, ctrl) == [d EXCEPT !.selected = ~d.selected]

\* Event::MouseDown: the new ComponentState.
OnMouseDown(d, ctrl) ==
    IF ~d.selected THEN [d EXCEPT !.selected = TRUE] ELSE d

\* MouseDownCommands with the ctrl modifier not looked at.
MouseDownCommands_IgnoreCtrl(d, self, window_pos, ctrl) ==
    (IF ~d.selected
        THEN << [sel |-> "DESELECT_ALL", payload |-> <<self>>] >>
        ELSE << >>)
    \o << [sel |-> "BEGIN_DRAG", payload |-> window_pos] >>

\* MouseDownCommands with the two submit_command calls in the other order.
MouseDownCommands_DragFirst(d, self, window_pos, ctrl) ==
    << [sel |-> "BEGIN_DRAG", payload |-> window_pos] >>
    \o (IF ~d.selected /\ ~ctrl
        THEN << [sel |-> "DESELECT_ALL", payload |-> <<self>>] >>
        ELSE << >>)

\* MouseDownCommands that never submits DESELECT_ALL.
MouseDownCommands_NoDeselect(d, self, window_pos, ctrl) ==
    << [sel |-> "BEGIN_DRAG", payload |-> window_pos] >>

\* Event::MouseDown: the commands submitted, in order.
MouseDownCommands(d, self, window_pos, ctrl) ==
    (IF ~d.selected /\ ~ctrl
        THEN << [sel |-> "DESELECT_ALL", payload |-> <<self>>] >>
        ELSE << >>)
    \o << [sel |-> "BEGIN_DRAG", payload |-> window_pos] >>

\* OnMouseUp that ends the drag of a selected component only.
OnMouseUp_OnlyIfSelected(d) ==
    IF d.selected THEN [d EXCEPT !.dragging = None] ELSE d

\* Event::MouseUp
OnMouseUp(d) == [d EXCEPT !.dragging = None]

\* OnMouseMove that forgets the drag offset.
OnMouseMove_NoOffset(d, window_pos) ==
    IF IsSome(d.dragging)
        THEN [d EXCEPT !.coords = from_canvas_space(window_pos)]
        ELSE d

\* Event::MouseMove
OnMouseMove(d, window_pos) ==
    IF IsSome(d.dragging)
        THEN [d EXCEPT !.coords = from_canvas_space(VSub(window_pos, d.dragging))]
        ELSE d

\* OnKeyDown with the a and d keys swapped.
OnKeyDown_SwappedAD(d, key) ==
    LET orientation ==
            CASE key = "w" -> "North"
              [] key = "a" -> "East"
              [] key = "s" -> "South"
              [] key = "d" -> "West"
              [] OTHER -> d.orientation
    IN  IF orientation # d.orientation
            THEN [d EXCEPT !.orientation = orientation]
            ELSE d

\* OnKeyDown that turns a quarter left on a and a quarter right on d.
OnKeyDown_Rotates(d, key) ==
    LET left == [o \in Orientation |->
                    CASE o = "North" -> "West" [] o = "West" -> "South"
                      [] o = "South" -> "East" [] o = "East" -> "North"]
        right == [o \in Orientation |->
                    CASE o = "North" -> "East" [] o = "East" -> "South"
                      [] o = "South" -> "West" [] o = "West" -> "North"]
        orientation ==
            CASE key = "w" -> "North"
              [] key = "a" -> left[d.orientation]
              [] key = "s" -> "South"
              [] key = "d" -> right[d.orientation]
              [] OTHER -> d.orientation
    IN  IF orientation # d.orientation
            THEN [d EXCEPT !.orientation = orientation]
            ELSE d

\* Event::KeyDown
OnKeyDown(d, key) ==
    LET orientation ==
            CASE key = "w" -> "North"
              [] key = "a" -> "West"
              [] key = "s" -> "South"
              [] key = "d" -> "East"
              [] OTHER -> d.orientation
    IN  IF orientation # d.orientation
            THEN [d EXCEPT !.orientation = orientation]
            ELSE d

\* OnDeselectAll with the widget id test inverted.
OnDeselectAll_Inverted(d, self, widget_id) ==
    IF widget_id = self THEN [d EXCEPT !.selected = FALSE] ELSE d

\* OnDeselectAll that also ends the drag.
OnDeselectAll_EndsDrag(d, self, widget_id) ==
    IF widget_id # self THEN [d EXCEPT !.selected = FALSE, !.dragging = None] ELSE d

\* Event::Command(DESELECT_ALL)
OnDeselectAll(d, self, widget_id) ==
    IF widget_id # self THEN [d EXCEPT !.selected = FALSE] ELSE d

\* OnBeginDrag with the anchor offset of the current orientation.
OnBeginDrag_OrientedAnchor(d, window_pos) ==
    IF d.selected
        THEN [d EXCEPT !.dragging =
                Some(VSub(VSub(window_pos, anchor_offset(ty_of(d), d.orientation)),
                          instance_bounding_rect(instance_of(d)).origin))]
        ELSE d

\* OnBeginDrag that ends the drag of a component that is not selected.
OnBeginDrag_ClearsUnselected(d, window_pos) ==
    IF d.selected
        THEN [d EXCEPT !.dragging =
                Some(VSub(VSub(window_pos, instance_anchor_offset(instance_of(d))),
                          instance_bounding_rect(instance_of(d)).origin))]
        ELSE [d EXCEPT !.dragging = None]

\* OnBeginDrag without the data.selected guard.
OnBeginDrag_Unguarded(d, window_pos) ==
    [d EXCEPT !.dragging =
        Some(VSub(VSub(window_pos, instance_anchor_offset(instance_of(d))),
                  instance_bounding_rect(instance_of(d)).origin))]

\* OnBeginDrag that also moves the component under the pointer.
OnBeginDrag_SnapsToPointer(d, window_pos) ==
    IF d.selected
        THEN [d EXCEPT !.dragging =
                Some(VSub(VSub(window_pos, instance_anchor_offset(instance_of(d))),
                          instance_bounding_rect(instance_of(d)).origin)),
                       !.coords = from_canvas_space(window_pos)]
        ELSE d

\* Event::Command(BEGIN_DRAG) if data.selected; the default arm otherwise.
OnBeginDrag(d, window_pos) ==
    IF d.selected
        THEN [d EXCEPT !.dragging =
                Some(VSub(VSub(window_pos, instance_anchor_offset(instance_of(d))),
                          instance_bounding_rect(instance_of(d)).origin))]
        ELSE d

\* ------------------------------------------------------------------- Init
Init ==
    /\ data = [w \in Widgets |-> Placed(w)]
    /\ queue = << >>
    /\ cursor = 0
    /\ gesture = NoGesture
    /\ events = 0
    /\ plain = TRUE
    /\ geo = NoCall

\* ---------------------------------------------------------------- actions
\* The event loop takes the next input event once every command is delivered.
InputReady ==
    /\ queue = << >>
    /\ events < MaxEvents

\* A pointer press routed to widget id.
MouseDown(id, window_pos, ctrl) ==
    /\ InputReady
    /\ data' = [data EXCEPT ![id] = OnMouseDown(data[id], ctrl)]
    /\ queue' = MouseDownCommands(data[id], id, window_pos, ctrl)
    /\ cursor' = 1
    /\ gesture' = [id |-> id, pos |-> window_pos, ctrl |-> ctrl,
                   before |-> data]
    /\ events' = events + 1
    /\ plain' = (plain /\ ~ctrl /\ \A w \in Widgets : data[w].dragging = None)
    /\ UNCHANGED geo

\* A pointer release routed to widget id.
MouseUp(id) ==
    /\ InputReady
    /\ data' = [data EXCEPT ![id] = OnMouseUp(data[id])]
    /\ gesture' = NoGesture
    /\ events' = events + 1
    /\ UNCHANGED <<queue, cursor, plain, geo>>

\* A pointer move routed to widget id.
MouseMove(id, window_pos) ==
    /\ InputReady
    /\ data' = [data EXCEPT ![id] = OnMouseMove(data[id], window_pos)]
    /\ gesture' = NoGesture
    /\ events' = events + 1
    /\ UNCHANGED <<queue, cursor, plain, geo>>

\* A key press routed to widget id.
KeyDown(id, key) ==
    /\ InputReady
    /\ data' = [data EXCEPT ![id] = OnKeyDown(data[id], key)]
    /\ gesture' = NoGesture
    /\ events' = events + 1
    /\ UNCHANGED <<queue, cursor, plain, geo>>

\* The head command has reached widget id: the next widget is due, and after
\* the last widget the next command.
Delivered(id) ==
    /\ cursor' = IF id < NumComponents THEN id + 1
                 ELSE IF Len(queue) > 1 THEN 1 ELSE 0
    /\ queue' = IF id < NumComponents THEN queue ELSE Tail(queue)

\* The head command, DESELECT_ALL, is delivered to widget id.
DeselectAll(id) ==
    /\ queue # << >>
    /\ Head(queue).sel = "DESELECT_ALL"
    /\ cursor = id
    /\ data' = [data EXCEPT ![id] = OnDeselectAll(data[id], id, Head(queue).payload[1])]
    /\ Delivered(id)
    /\ UNCHANGED <<gesture, events, plain, geo>>

\* The head command, BEGIN_DRAG, is delivered to widget id.
BeginDrag(id) ==
    /\ queue # << >>
    /\ Head(queue).sel = "BEGIN_DRAG"
    /\ cursor = id
    /\ data' = [data EXCEPT ![id] = OnBeginDrag(data[id], Head(queue).payload)]
    /\ Delivered(id)
    /\ UNCHANGED <<gesture, events, plain, geo>>

Next ==
    \/ \E id \in Widgets, p \in PointerPositions, ctrl \in BOOLEAN : MouseDown(id, p, ctrl)
    \/ \E id \in Widgets : MouseUp(id)
    \/ \E id \in Widgets, p \in PointerPositions : MouseMove(id, p)
    \/ \E id \in Widgets, key \in Keys : KeyDown(id, key)
    \/ \E id \in Widgets : DeselectAll(id)
    \/ \E id \in Widgets : BeginDrag(id)

Spec == Init /\ [][Next]_vars

\* ------------------------------------------------- the geometry functions
\* A placed instance of any catalog type, at any cell, facing any way.
InitGeom ==
    /\ data = [w \in Widgets |-> Placed(w)]
    /\ queue = << >>
    /\ cursor = 0
    /\ gesture = NoGesture
    /\ events = 0
    /\ plain = TRUE
    /\ geo \in {[op |-> "instance", ty |-> t, coords |-> c, orientation |-> o,
                 result |-> << >>] :
                    t \in 1..Len(enumerate), c \in Cells, o \in Orientation}

geo_instance == [coords |-> geo.coords, ty |-> enumerate[geo.ty],
                 orientation |-> geo.orientation]

canvas_vars == <<data, queue, cursor, gesture, events, plain>>

\* The call has returned result.
Returned(op, result) == [geo EXCEPT !.op = op, !.result = result]

\* ComponentInstance::bounding_rect is called.
CallBoundingRect ==
    /\ geo.op = "instance"
    /\ geo' = Returned("bounding_rect", instance_bounding_rect(geo_instance))
    /\ UNCHANGED canvas_vars

\* ComponentType::anchor_offset is called with the instance's orientation.
CallAnchorOffset ==
    /\ geo.op = "instance"
    /\ geo' = Returned("anchor_offset", anchor_offset(enumerate[geo.ty], geo.orientation))
    /\ UNCHANGED canvas_vars

\* The instance's coords go to canvas space and back.
CallRoundTrip ==
    /\ geo.op = "instance"
    /\ geo' = Returned("round_trip", from_canvas_space(to_canvas_space(geo.coords)))
    /\ UNCHANGED canvas_vars

\* ComponentType::enumerate is called.
CallEnumerate ==
    /\ geo.op = "instance"
    /\ geo' = Returned("enumerate", enumerate)
    /\ UNCHANGED canvas_vars

\* ComponentInstance::paint: where the anchor of the icon is painted,
\* relative to the top left corner of the bounding rectangle.
CallPaint ==
    /\ geo.op = "instance"
    /\ geo' = Returned("paint",
                       rotate_center(geo_instance, instance_anchor_offset(geo_instance)))
    /\ UNCHANGED canvas_vars

NextGeom ==
    \/ CallBoundingRect
    \/ CallAnchorOffset
    \/ CallRoundTrip
    \/ CallEnumerate
    \/ CallPaint

SpecGeom == InitGeom /\ [][NextGeom]_vars

\* ----------------------------------------------------------------- claims
\* The latest input event is a pointer press and every broadcast it caused
\* has been delivered.
GestureDone == gesture.id # 0 /\ queue = << >>

Others(id) == Widgets \ {id}
Dragging == {w \in Widgets : IsSome(data[w].dragging)}

\* C1 as stated: after a PointerDown on A without ctrl and the delivery of
\* its broadcasts, every other component has selected = false, whether A was
\* Idle or Selected before the press.
C1_DeselectsOthers ==
    (GestureDone /\ ~gesture.ctrl)
        => \A w \in Others(gesture.id) : ~data[w].selected

\* C1 amended: after a PointerDown without ctrl on a component A that was not
\* selected, and the delivery of its broadcasts, every other component has
\* selected = false; when A was already selected no DeselectAll is broadcast
\* and every other component keeps its selected flag.
C1_DeselectsOthersWhenNotSelected ==
    (GestureDone /\ ~gesture.ctrl)
        => \A w \in Others(gesture.id) :
              IF gesture.before[gesture.id].selected
                  THEN data[w].selected = gesture.before[w].selected
                  ELSE ~data[w].selected

C1_Witness ==
    /\ GestureDone
    /\ ~gesture.ctrl
    /\ ~gesture.before[gesture.id].selected
    /\ \E w \in Others(gesture.id) : gesture.before[w].selected /\ ~data[w].selected

\* C2: after a PointerDown on A with ctrl held and the delivery of its
\* broadcasts, every other component has the selected flag it had before the
\* press.
C2_CtrlKeepsOthers ==
    (GestureDone /\ gesture.ctrl)
        => \A w \in Others(gesture.id) : data[w].selected = gesture.before[w].selected

C2_Witness ==
    /\ GestureDone
    /\ gesture.ctrl
    /\ ~gesture.before[gesture.id].selected
    /\ data[gesture.id].selected
    /\ \E w \in Others(gesture.id) : gesture.before[w].selected /\ data[w].selected

\* C3 as stated: in every reachable state at most one component has
\* dragOffset set.
C3_AtMostOneDragging == Cardinality(Dragging) <= 1

\* C3 amended: as long as no PointerDown had ctrl held and none arrived while
\* some dragOffset was set, at most one component has dragOffset set;
\* BeginDrag sets it on every component selected at delivery, so a ctrl
\* press, or a press during a drag, can leave several components with it.
C3_AtMostOneDraggingPlain == plain => Cardinality(Dragging) <= 1

C3_Witness ==
    /\ plain
    /\ GestureDone
    /\ Dragging = {gesture.id}
    /\ \E w \in Others(gesture.id) : gesture.before[w].selected

\* C4 as stated: a component that receives DeselectAll with an origin id
\* other than its own ends with selected = false and dragOffset = none.
C4_DeselectAllEndsDrag ==
    [][\A w \in Widgets :
          (DeselectAll(w) /\ Head(queue).payload[1] # w)
              => (~data'[w].selected /\ data'[w].dragging = None)]_vars

\* C4 amended: a component that receives DeselectAll with an origin id other
\* than its own ends with selected = false; its dragOffset, coords and
\* orientation are left as they were, so a set dragOffset stays set.
C4_DeselectAllKeepsDrag ==
    [][\A w \in Widgets :
          (DeselectAll(w) /\ Head(queue).payload[1] # w)
              => data'[w] = [data[w] EXCEPT !.selected = FALSE]]_vars

C4_Witness ==
    \E w \in Widgets : ~data[w].selected /\ IsSome(data[w].dragging)

\* Every DeselectAll has reached every component before a BeginDrag reaches
\* any.
DeselectBeforeDrag ==
    (queue # << >> /\ Head(queue).sel = "BEGIN_DRAG")
        => \A i \in 1..Len(queue) : queue[i].sel # "DESELECT_ALL"

\* C5 as stated: in a gesture started by a PointerDown on A without ctrl,
\* DeselectAll is processed by every other component before BeginDrag is
\* processed by any, and BeginDrag sets the dragOffset of no component
\* other than A.
C5_OnlyOriginDrags ==
    /\ []DeselectBeforeDrag
    /\ [][\A w \in Widgets :
             (BeginDrag(w) /\ ~gesture.ctrl /\ w # gesture.id)
                 => data'[w].dragging = data[w].dragging]_vars

\* C5 amended: in a gesture started by a PointerDown without ctrl on a
\* component A that was not selected, DeselectAll is processed by every other
\* component before BeginDrag is processed by any, and BeginDrag sets the
\* dragOffset of no component other than A.
C5_OnlyOriginDragsWhenNotSelected ==
    /\ []DeselectBeforeDrag
    /\ [][\A w \in Widgets :
             (BeginDrag(w) /\ ~gesture.ctrl /\ w # gesture.id
                  /\ ~gesture.before[gesture.id].selected)
                 => data'[w].dragging = data[w].dragging]_vars

C5_Witness ==
    /\ GestureDone
    /\ ~gesture.ctrl
    /\ ~gesture.before[gesture.id].selected
    /\ IsSome(data[gesture.id].dragging)
    /\ \E w \in Others(gesture.id) :
          /\ gesture.before[w].selected
          /\ gesture.before[w].dragging = None
          /\ data[w].dragging = None

\* C6: after a PointerDown(pos) on A, with or without ctrl, from Idle or
\* Selected, and the delivery of its broadcasts, A has selected = true and
\* dragOffset = pos - anchorOffset(North) - boundingRect().origin for the
\* coords and orientation A had at the press; and the DeselectAll that
\* carries A's own id leaves A's state as it was.
C6_PressSelectsAndSetsOffset ==
    /\ [](GestureDone =>
            LET a == data[gesture.id]
                b == gesture.before[gesture.id]
                north == anchor_offset(enumerate[b.ty], "North")
                origin == bounding_rect(enumerate[b.ty], b.coords, b.orientation).origin
            IN  /\ a.selected
                /\ a.dragging = <<gesture.pos[1] - north[1] - origin[1],
                                  gesture.pos[2] - north[2] - origin[2]>>
                /\ a.coords = b.coords
                /\ a.orientation = b.orientation)
    /\ [][\A w \in Widgets :
             (DeselectAll(w) /\ Head(queue).payload[1] = w) => data'[w] = data[w]]_vars

C6_Witness ==
    /\ GestureDone
    /\ data[gesture.id].orientation # "North"
    /\ data[gesture.id].selected
    /\ IsSome(data[gesture.id].dragging)
    /\ ~gesture.ctrl
    /\ ~gesture.before[gesture.id].selected

\* C7: a PointerUp delivered to a component in any state leaves dragOffset =
\* none and leaves selected, coords and orientation as they were.
C7_PointerUpEndsDrag ==
    [][\A w \in Widgets :
          MouseUp(w) =>
              /\ data'[w].dragging = None
              /\ data'[w].selected = data[w].selected
              /\ data'[w].coords = data[w].coords
              /\ data'[w].orientation = data[w].orientation]_vars

C7_Witness ==
    /\ queue = << >>
    /\ \E w \in Widgets :
          /\ data[w].selected
          /\ data[w].dragging = None
          /\ data[w].coords # Placed(w).coords

\* C8: a component's dragOffset goes from set to none only in a step in which
\* that component handles PointerUp.
C8_OnlyPointerUpEndsDrag ==
    [][\A w \in Widgets :
          (IsSome(data[w].dragging) /\ data'[w].dragging = None) => MouseUp(w)]_vars

C8_Witness ==
    /\ queue = << >>
    /\ \E w \in Widgets :
          /\ IsSome(data[w].dragging)
          /\ ~data[w].selected
          /\ data[w].orientation # "North"

\* C9 as stated: in every step that starts and ends with a component's
\* dragOffset set, that component's orientation stays as it was.
C9_DragKeepsOrientation ==
    [][\A w \in Widgets :
          (IsSome(data[w].dragging) /\ IsSome(data'[w].dragging))
              => data'[w].orientation = data[w].orientation]_vars

\* The orientation the KeyDown arm maps a key to.
KeyOrientation(key) ==
    CASE key = "w" -> "North"
      [] key = "a" -> "West"
      [] key = "s" -> "South"
      [] key = "d" -> "East"

\* C9 amended: while a component's dragOffset is set its orientation changes
\* only in a step in which that component handles KeyDown with w, a, s or d,
\* and then to the orientation of that key; pointer events and broadcasts
\* leave it as it was.
C9_DragKeepsOrientationButKeys ==
    [][\A w \in Widgets :
          (IsSome(data[w].dragging) /\ IsSome(data'[w].dragging)
               /\ data'[w].orientation # data[w].orientation)
              => \E key \in {"w", "a", "s", "d"} :
                    KeyDown(w, key) /\ data'[w].orientation = KeyOrientation(key)]_vars

C9_Witness ==
    /\ events = 2
    /\ \E w \in Widgets, p \in PointerPositions :
          /\ data[w].orientation # "North"
          /\ data[w].dragging = VSub(p, to_canvas_space(data[w].coords))

Abs(n) == IF n >= 0 THEN n ELSE -n

\* c is a grid cell nearest the canvas point p.
NearestCell(c, p) ==
    \A i \in 1..2 : 2 * Abs(p[i] - GridScale * c[i]) <= GridScale

\* C10: a PointerMove(pos) handled by a component whose dragOffset is set
\* replaces coords with the grid cell nearest pos - dragOffset and leaves
\* dragOffset, selected and orientation as they were; handled while
\* dragOffset is none it changes nothing.
C10_PointerMoveTracks ==
    [][\A w \in Widgets, p \in PointerPositions :
          MouseMove(w, p) =>
              IF IsSome(data[w].dragging)
                  THEN /\ NearestCell(data'[w].coords, VSub(p, data[w].dragging))
                       /\ data'[w].coords = from_canvas_space(VSub(p, data[w].dragging))
                       /\ data'[w] = [data[w] EXCEPT !.coords = data'[w].coords]
                  ELSE data'[w] = data[w]]_vars

C10_Witness ==
    /\ gesture = NoGesture
    /\ \E w \in Widgets :
          /\ IsSome(data[w].dragging)
          /\ data[w].coords[1] # Placed(w).coords[1]
          /\ data[w].coords[2] # Placed(w).coords[2]

\* C11: KeyDown with w, a, s or d sets orientation to North, West, South or
\* East whatever the state was, so w,w ends at North and a,s,d ends at East;
\* any other key changes nothing; KeyDown never changes coords, selected or
\* dragOffset.
C11_KeySetsOrientation ==
    /\ [][\A w \in Widgets, key \in Keys :
             KeyDown(w, key) =>
                 data'[w] = [data[w] EXCEPT !.orientation =
                                IF key \in {"w", "a", "s", "d"}
                                    THEN KeyOrientation(key)
                                    ELSE data[w].orientation]]_vars
    /\ [](\A w \in Widgets :
             /\ OnKeyDown(OnKeyDown(data[w], "w"), "w").orientation = "North"
             /\ OnKeyDown(OnKeyDown(OnKeyDown(data[w], "a"), "s"), "d").orientation
                    = "East")

C11_Witness ==
    /\ events = 3
    /\ \E w \in Widgets :
          data[w].orientation = "East" /\ ~data[w].selected /\ data[w].dragging = None
    /\ \E w \in Widgets :
          data[w].orientation = "West" /\ data[w].selected /\ IsSome(data[w].dragging)

\* C12: a BeginDrag received by a component with selected = false changes
\* none of its selected, dragOffset, coords and orientation.
C12_BeginDragIgnoredUnselected ==
    [][\A w \in Widgets :
          (BeginDrag(w) /\ ~data[w].selected) => data'[w] = data[w]]_vars

C12_Witness ==
    /\ GestureDone
    /\ gesture.ctrl
    /\ \E w \in Others(gesture.id) :
          /\ ~data[w].selected
          /\ data[w].dragging = None
          /\ data[w] = gesture.before[w]

Idle(d) == ~d.selected /\ d.dragging = None
Detached(d) == ~d.selected /\ IsSome(d.dragging)

\* C17 as stated: in every reachable state of every component, dragOffset
\* set implies selected = true.
C17_DraggingImpliesSelected ==
    \A w \in Widgets : IsSome(data[w].dragging) => data[w].selected

\* C17 amended: every component starts Idle, and dragOffset set implies
\* selected = true except after a DeselectAll from another component has
\* reached a Dragging component: that step, and no other, takes a component
\* into a fourth state (selected = false, dragOffset = some).
C17_DraggingImpliesSelectedButDeselect ==
    /\ [](events = 0 /\ queue = << >> => \A w \in Widgets : Idle(data[w]))
    /\ [][\A w \in Widgets :
             (Detached(data'[w]) /\ ~Detached(data[w]))
                 => /\ DeselectAll(w)
                    /\ Head(queue).payload[1] # w
                    /\ data[w].selected
                    /\ IsSome(data[w].dragging)]_vars

C17_Witness ==
    /\ GestureDone
    /\ data[gesture.id].selected
    /\ IsSome(data[gesture.id].dragging)
    /\ \E w \in Others(gesture.id) :
          /\ Detached(data[w])
          /\ gesture.before[w].selected
          /\ gesture.before[w].dragging = data[w].dragging

\* C18: a component that handles BeginDrag(pos) and then a PointerMove at the
\* same pos keeps its coords, for every type, orientation and grid cell.
C18_DragStartKeepsCoords ==
    [][\A w \in Widgets :
          (GestureDone /\ data[w].selected /\ IsSome(data[w].dragging)
               /\ MouseMove(w, gesture.pos))
              => data'[w].coords = data[w].coords]_vars

\* C20: a component's coords change only in a step in which that component
\* handles PointerMove while its dragOffset is set.
C20_OnlyDragMoveChangesCoords ==
    [][\A w \in Widgets :
          data'[w].coords # data[w].coords
              => \E p \in PointerPositions :
                    MouseMove(w, p) /\ IsSome(data[w].dragging)]_vars

C20_Witness ==
    /\ queue = << >>
    /\ events = MaxEvents
    /\ \E w \in Widgets :
          /\ data[w].orientation = "South"
          /\ ~data[w].selected
          /\ IsSome(data[w].dragging)
          /\ data[w].coords = Placed(w).coords

\* The declared size and North anchor of the type the call was made on.
geo_size == enumerate[geo.ty].size
geo_anchor == enumerate[geo.ty].anchor_offset

\* C13: boundingRect(c, o) has the declared size (w, h) for North and South
\* and (h, w) for East and West, and its origin is toCanvasSpace(c) -
\* anchorOffset(o); a NOT gate at (0, 0) facing North has origin (-12, -32)
\* and size (24, 48).
C13_BoundingRect ==
    geo.op = "bounding_rect" =>
        /\ geo.result.size =
              IF geo.orientation \in {"North", "South"}
                  THEN <<geo_size[1], geo_size[2]>>
                  ELSE <<geo_size[2], geo_size[1]>>
        /\ geo.result.origin =
              <<GridScale * geo.coords[1]
                    - anchor_offset(enumerate[geo.ty], geo.orientation)[1],
                GridScale * geo.coords[2]
                    - anchor_offset(enumerate[geo.ty], geo.orientation)[2]>>
        /\ (geo.ty = 1 /\ geo.coords = <<0, 0>> /\ geo.orientation = "North")
              => geo.result = [origin |-> <<-12, -32>>, size |-> <<24, 48>>]

C13_Witness ==
    /\ geo.op = "bounding_rect"
    /\ geo.ty = 1
    /\ geo.orientation = "East"
    /\ geo.coords = <<1, -1>>
    /\ geo.result = [origin |-> <<0, -28>>, size |-> <<48, 24>>]

\* C14: for size (w, h) and North anchor a, anchorOffset is a for North,
\* (h - a.y, a.x) for East, (w - a.x, h - a.y) for South and (a.y, w - a.x)
\* for West.
C14_AnchorOffset ==
    geo.op = "anchor_offset" =>
        LET w == geo_size[1]
            h == geo_size[2]
            a == geo_anchor
        IN  /\ geo.orientation = "North" => geo.result = a
            /\ geo.orientation = "East"  => geo.result = <<h - a[2], a[1]>>
            /\ geo.orientation = "South" => geo.result = <<w - a[1], h - a[2]>>
            /\ geo.orientation = "West"  => geo.result = <<a[2], w - a[1]>>

C14_Witness ==
    /\ geo.op = "anchor_offset"
    /\ geo.ty = 1
    /\ geo.orientation = "West"
    /\ geo.result = <<32, 12>>

\* C15: fromCanvasSpace(toCanvasSpace(c)) = c for every grid coordinate c,
\* toCanvasSpace multiplying by the grid scale.
C15_RoundTrip ==
    geo.op = "round_trip" =>
        /\ geo.result = geo.coords
        /\ to_canvas_space(geo.coords)[1] = GridScale * geo.coords[1]
        /\ to_canvas_space(geo.coords)[2] = GridScale * geo.coords[2]

C15_Witness ==
    /\ geo.op = "round_trip"
    /\ geo.coords = <<-MaxCell, MaxCell>>
    /\ geo.result = <<-MaxCell, MaxCell>>

\* C16: enumerate() returns four types in the order NOT, AND, OR, NAND: NOT
\* of size 24x48, anchor (12,32), input pins [(0,1)], output pins [(0,-2)];
\* AND, OR and NAND of size 48x48, anchor (24,32), input pins
\* [(-1,1),(1,1)], output pins [(0,-2)].
C16_Catalog ==
    geo.op = "enumerate" =>
        /\ Len(geo.result) = 4
        /\ [i \in 1..4 |-> geo.result[i].name] = <<"NOT", "AND", "OR", "NAND">>
        /\ geo.result[1].size = <<24, 48>>
        /\ geo.result[1].anchor_offset = <<12, 32>>
        /\ geo.result[1].input_pins = << <<0, 1>> >>
        /\ geo.result[1].output_pins = << <<0, -2>> >>
        /\ \A i \in 2..4 :
              /\ geo.result[i].size = <<48, 48>>
              /\ geo.result[i].anchor_offset = <<24, 32>>
              /\ geo.result[i].input_pins = << <<-1, 1>>, <<1, 1>> >>
              /\ geo.result[i].output_pins = << <<0, -2>> >>

C16_Witness ==
    /\ geo.op = "enumerate"
    /\ Len(geo.result) = 4
    /\ geo.result[1].name = "NOT"
    /\ geo.result[4].name = "NAND"

\* C19: for every type and orientation o, anchorOffset(o) is the North anchor
\* offset turned clockwise by angle(o) and then translated by the recentering
\* vector, so the painted anchor is the bounding rectangle's anchor.
C19_PaintedAnchor ==
    geo.op = "paint" =>
        geo.result = anchor_offset(enumerate[geo.ty], geo.orientation)

C19_Witness ==
    /\ geo.op = "paint"
    /\ geo.ty = 1
    /\ geo.orientation = "East"
    /\ geo.result = <<16, 12>>

====
